---- MODULE Spec2Model ----
(***************************************************************************)
(* Model of app.py, the finance chat assistant: the intent classifier      *)
(* detect_intent, the canned replies, the knowledge base, the delegation   *)
(* to the GROQ service, the response composer generate_response with its   *)
(* per-session rate limit, the chat handler that owns the conversation     *)
(* history, the risk scoring formula and the SIP calculator.               *)
(*                                                                         *)
(* Python strings are TLA+ strings; str.lower, str.strip, str.split and    *)
(* the substring test `k in s` are computed character by character.        *)
(* Numbers of calc_sip are exact fractions <<numerator, denominator>>.     *)
(***************************************************************************)
EXTENDS Integers, Sequences, FiniteSets, TLC

VARIABLES
    query,              \* argument of the last detect_intent call
    intent,             \* its return value ("" before the call)
    API_KEY,            \* TRUE when st.secrets holds GROQ_API_KEY
    messages,           \* st.session_state.messages
    last_request_time,  \* st.session_state.last_request_time
    now,                \* time.time()
    tool,               \* the sidebar selectbox
    call,               \* the last prompt handled: what was asked, when, and
                        \* what generate_response did and returned
    answers,            \* the five answers of the risk form
    risk,               \* the return value of assess_risk
    sip_in,             \* the arguments of calc_sip: monthly, rate, years
    sip                 \* what calc_sip returned or raised

vars == <<query, intent, API_KEY, messages, last_request_time, now, tool,
          call, answers, risk, sip_in, sip>>

----------------------------------------------------------------------------
(* Python string primitives                                                *)

UpperLetters == "ABCDEFGHIJKLMNOPQRSTUVWXYZ"
LowerLetters == "abcdefghijklmnopqrstuvwxyz"

CharAt(s, i) == SubSeq(s, i, i)

\* str.lower() on one character
lowerChar(c) ==
    IF \E i \in 1..Len(UpperLetters) : CharAt(UpperLetters, i) = c
    THEN CharAt(LowerLetters,
                CHOOSE i \in 1..Len(UpperLetters) : CharAt(UpperLetters, i) = c)
    ELSE c

RECURSIVE lower(_)
lower(s) ==
    IF Len(s) = 0 THEN ""
    ELSE lowerChar(CharAt(s, 1)) \o lower(SubSeq(s, 2, Len(s)))

isspace(c) == c \in {" ", "\t", "\n"}

RECURSIVE lstrip(_)
lstrip(s) ==
    IF Len(s) > 0 /\ isspace(CharAt(s, 1)) THEN lstrip(SubSeq(s, 2, Len(s)))
    ELSE s

RECURSIVE rstrip(_)
rstrip(s) ==
    IF Len(s) > 0 /\ isspace(CharAt(s, Len(s)))
    THEN rstrip(SubSeq(s, 1, Len(s) - 1))
    ELSE s

strip(s) == rstrip(lstrip(s))

\* the length of the first run of non-whitespace characters of s
RECURSIVE wordLen(_)
wordLen(s) ==
    IF Len(s) = 0 \/ isspace(CharAt(s, 1)) THEN 0
    ELSE 1 + wordLen(SubSeq(s, 2, Len(s)))

\* str.split(): the maximal runs of non-whitespace characters, in order
RECURSIVE split(_)
split(s) ==
    LET t == lstrip(s)
        n == wordLen(t)
    IN  IF Len(t) = 0 THEN << >>
        ELSE <<SubSeq(t, 1, n)>> \o split(SubSeq(t, n + 1, Len(t)))

\* the Python test `k in s` on strings
In(k, s) ==
    \E i \in 1..(Len(s) - Len(k) + 1) : SubSeq(s, i, i + Len(k) - 1) = k

\* any(k in s for k in words)
anyIn(words, s) == \E j \in DOMAIN words : In(words[j], s)

----------------------------------------------------------------------------
(* detect_intent                                                           *)

greetings == <<"hi", "hello", "hey", "good morning", "good evening",
               "good afternoon", "namaste", "hola">>
thanks == <<"thank", "thanks", "thank you", "appreciate", "helpful">>
casual == <<"how are you", "what's up", "whats up", "who are you", "your name">>

\* the finance rules with the tax and stocks tests exchanged
topic_rules_reordered == <<
    [topic |-> "sip",         words |-> <<"sip", "systematic investment", "monthly investment">>],
    [topic |-> "stocks",      words |-> <<"stock", "share", "equity", "nifty", "sensex">>],
    [topic |-> "tax",         words |-> <<"tax", "80c", "deduction", "save tax">>],
    [topic |-> "retirement",  words |-> <<"retire", "retirement", "pension">>],
    [topic |-> "risk",        words |-> <<"risk", "safe", "conservative", "aggressive">>],
    [topic |-> "debt",        words |-> <<"emi", "loan", "debt", "credit">>],
    [topic |-> "budget",      words |-> <<"budget", "save", "saving", "expense">>],
    [topic |-> "insurance",   words |-> <<"insurance", "term", "health insurance">>],
    [topic |-> "mutual_fund", words |-> <<"mutual fund", "mf", "fund">>],
    [topic |-> "emergency",   words |-> <<"emergency", "emergency fund", "contingency">>] >>

\* the finance rules, in the order of the if-statements
topic_rules == <<
    [topic |-> "sip",         words |-> <<"sip", "systematic investment", "monthly investment">>],
    [topic |-> "tax",         words |-> <<"tax", "80c", "deduction", "save tax">>],
    [topic |-> "stocks",      words |-> <<"stock", "share", "equity", "nifty", "sensex">>],
    [topic |-> "retirement",  words |-> <<"retire", "retirement", "pension">>],
    [topic |-> "risk",        words |-> <<"risk", "safe", "conservative", "aggressive">>],
    [topic |-> "debt",        words |-> <<"emi", "loan", "debt", "credit">>],
    [topic |-> "budget",      words |-> <<"budget", "save", "saving", "expense">>],
    [topic |-> "insurance",   words |-> <<"insurance", "term", "health insurance">>],
    [topic |-> "mutual_fund", words |-> <<"mutual fund", "mf", "fund">>],
    [topic |-> "emergency",   words |-> <<"emergency", "emergency fund", "contingency">>] >>

GreetingMaxTokens == 3

\* the chain of finance if-statements from rule i on
RECURSIVE finance_topic(_, _)
finance_topic(query_lower, i) ==
    IF i > Len(topic_rules) THEN "general"
    ELSE IF anyIn(topic_rules[i].words, query_lower) THEN topic_rules[i].topic
    ELSE finance_topic(query_lower, i + 1)

detect_intent(q) ==
    LET query_lower == strip(lower(q))
    IN  IF anyIn(greetings, query_lower)
           /\ Len(split(query_lower)) <= GreetingMaxTokens
        THEN "greeting"
        ELSE IF anyIn(thanks, query_lower) THEN "gratitude"
        ELSE IF anyIn(casual, query_lower) THEN "casual"
        ELSE finance_topic(query_lower, 1)

----------------------------------------------------------------------------
(* get_quick_response and the knowledge base                               *)

\* Python's None; `if x:` is false for None and for the empty string
None == "<None>"
truthy(x) == x # None /\ x # ""

GreetingReply == "Hey there! Great to see you! I'm Finny, your finance buddy."
GratitudeReply == "You're very welcome! I'm really glad I could help."
CasualReply == "I'm Finny, your friendly neighborhood finance advisor!"

quick_responses ==
    [k \in {"greeting", "gratitude", "casual"} |->
        CASE k = "greeting" -> GreetingReply
          [] k = "gratitude" -> GratitudeReply
          [] k = "casual" -> CasualReply]

\* dict.get(key, default)
dict_get(d, key, default) == IF key \in DOMAIN d THEN d[key] ELSE default

get_quick_response(i, q) == dict_get(quick_responses, i, None)

kb_keys == {"sip", "risk", "emergency", "tax", "stocks", "retirement", "debt",
            "gold", "mutual fund", "budget", "insurance"}

get_knowledge_base ==
    [k \in kb_keys |->
        CASE k = "sip" -> "SIP invests fixed amounts regularly in mutual funds."
          [] k = "risk" -> "Conservative: Debt funds 5-7%. Moderate: Hybrid 8-12%. Aggressive: Equity 12-20%."
          [] k = "emergency" -> "Emergency fund: 6-12 months expenses in liquid funds."
          [] k = "tax" -> "80C: ELSS 1.5L (3-year lock), PPF 7.1%, NPS +50k."
          [] k = "stocks" -> "NIFTY 50: Top 50 companies. SENSEX: Top 30."
          [] k = "retirement" -> "Rule of 72: 72/return = years to double."
          [] k = "debt" -> "50-30-20 rule. Pay high-interest first."
          [] k = "gold" -> "Options: Physical, ETFs, SGBs. 9-10% returns."
          [] k = "mutual fund" -> "Equity (high risk 12-20%), Debt (low risk 5-7%), Hybrid (balanced 8-12%)."
          [] k = "budget" -> "50-30-20: 50% needs, 30% wants, 20% savings."
          [] k = "insurance" -> "Term: 10-15x income. Health: Min 5L."]

KbDefault == "AI unavailable. Use sidebar tools for calculations."
FallbackHeader == "AI unavailable.\n\n"
FallbackSuggestion == "\n\nUse sidebar tools or configure GROQ API key."

\* the else-branch of generate_response
kb_fallback(i) ==
    FallbackHeader \o dict_get(get_knowledge_base, i, KbDefault) \o FallbackSuggestion

----------------------------------------------------------------------------
(* get_groq_response                                                       *)

topics_with_prompt == {"sip", "tax", "stocks", "retirement", "risk", "debt",
                       "budget", "insurance", "mutual_fund", "emergency", "general"}

system_prompts ==
    [k \in topics_with_prompt |->
        CASE k = "sip" -> "Focus on SIP benefits."
          [] k = "tax" -> "Explain Indian tax-saving options."
          [] k = "stocks" -> "Discuss Indian stock market basics."
          [] k = "retirement" -> "Guide on retirement planning in India."
          [] k = "risk" -> "Help assess risk tolerance."
          [] k = "debt" -> "Advise on loan management."
          [] k = "budget" -> "Suggest budgeting frameworks."
          [] k = "insurance" -> "Explain term insurance, health insurance in India."
          [] k = "mutual_fund" -> "Compare Indian equity, debt, and hybrid funds."
          [] k = "emergency" -> "Stress importance of emergency fund."
          [] k = "general" -> "Understand the user's financial situation."]

system_instruction(i) ==
    "You are Finny. TOPIC CONTEXT: "
        \o dict_get(system_prompts, i, system_prompts["general"])

\* the `messages` array of the request payload
build_messages(prompt, i, conversation_context) ==
    <<[role |-> "system", content |-> system_instruction(i)]>>
    \o [k \in DOMAIN conversation_context |->
            [role |-> IF conversation_context[k][1] = "user" THEN "user"
                      ELSE "assistant",
             content |-> conversation_context[k][2]]]
    \o <<[role |-> "user", content |-> prompt]>>

NoKeyMsg == "GROQ API key not configured. Please add it to .streamlit/secrets.toml"
TroubleMsg == "I'm having trouble generating a response right now. Please try rephrasing your question!"
TimeoutMsg == "Request timed out. Please try again."
ConnectionMsg == "Connection error. Please check your internet and try again."
FormatMsg == "Unexpected response format. Please try again."
ApiErrorPrefix == "GROQ API Error ("
GenericPrefix == "Error: "

HTTP_OK == 200

\* What requests.post and the service can do.  exc: the exception post raises
\* ("none" when it returns).  status: response.status_code.  text: the body is
\* empty, is not JSON ("invalid"), or is a JSON object ("json").  error: the
\* value under 'error' (absent, a string, a dict without 'message', a dict with
\* it).  choices: the value under 'choices' (absent, [], a list whose first
\* element lacks message/content, a well-formed list).  json_error: the class
\* response.json() raises on a body that is not JSON: a RequestException
\* subclass from requests 2.27 on, a plain ValueError before.
ServiceText == "Start with a small monthly SIP."
RemoteMessage == "Rate limit reached"

Raised == {[exc |-> e, status |-> 0, text |-> "empty", error |-> "absent",
            choices |-> "absent", json_error |-> "RequestException"] :
           e \in {"Timeout", "ConnectionError", "RuntimeError"}}

Bodies == {
    [text |-> "empty",   error |-> "absent", choices |-> "absent"],
    [text |-> "invalid", error |-> "absent", choices |-> "absent"],
    [text |-> "json",    error |-> "absent", choices |-> "absent"],
    [text |-> "json",    error |-> "dict",   choices |-> "absent"],
    [text |-> "json",    error |-> "dict_no_message", choices |-> "absent"],
    [text |-> "json",    error |-> "string", choices |-> "absent"],
    [text |-> "json",    error |-> "absent", choices |-> "empty"],
    [text |-> "json",    error |-> "absent", choices |-> "no_message"],
    [text |-> "json",    error |-> "absent", choices |-> "ok"] }

Statuses == {HTTP_OK, 429, 500}

Returned == {[exc |-> "none", status |-> st, text |-> b.text, error |-> b.error,
              choices |-> b.choices, json_error |-> j] :
             st \in Statuses, b \in Bodies,
             j \in {"RequestException", "ValueError"}}

Outcomes == Raised \cup Returned

\* the classes an `except C` clause catches, for each exception class raised
Bases(e) ==
    CASE e = "Timeout" -> {"Timeout", "RequestException", "Exception"}
      [] e = "ConnectionError" -> {"ConnectionError", "RequestException", "Exception"}
      [] e = "RequestException" -> {"RequestException", "Exception"}
      [] OTHER -> {e, "Exception"}

Return(v) == [raised |-> "none", value |-> v]
Raise(e) == [raised |-> e, value |-> e]

\* response.json()
response_json(o) ==
    IF o.text = "json" THEN Return(o) ELSE Raise(o.json_error)

\* the body of the try statement
try_body(o) ==
    IF o.exc # "none" THEN Raise(o.exc)
    ELSE IF o.status # HTTP_OK THEN
        IF o.text # "empty" /\ response_json(o).raised # "none"
        THEN response_json(o)
        ELSE LET error == IF o.text = "empty" THEN "absent" ELSE o.error
             IN  IF error = "string" THEN Raise("AttributeError")
                 ELSE Return(ApiErrorPrefix \o ToString(o.status) \o "): "
                             \o (IF error = "dict" THEN RemoteMessage
                                 ELSE "Unknown error"))
    ELSE IF response_json(o).raised # "none" THEN response_json(o)
    ELSE IF o.choices \in {"absent", "empty"} THEN Return(TroubleMsg)
    ELSE IF o.choices = "no_message" THEN Raise("KeyError")
    ELSE Return(ServiceText)

\* the except clauses, in order; an exception none of them catches propagates
handle(r) ==
    IF r.raised = "none" THEN r
    ELSE IF "Timeout" \in Bases(r.raised) THEN Return(TimeoutMsg)
    ELSE IF "RequestException" \in Bases(r.raised) THEN Return(ConnectionMsg)
    ELSE IF Bases(r.raised) \cap {"KeyError", "IndexError"} # {} THEN Return(FormatMsg)
    ELSE IF "Exception" \in Bases(r.raised) THEN Return(GenericPrefix \o r.value)
    ELSE r

\* returns the request's message list and the result of the call
get_groq_response(prompt, i, conversation_context, o, key) ==
    IF ~key THEN [sent |-> << >>, result |-> Return(NoKeyMsg)]
    ELSE [sent |-> build_messages(prompt, i, conversation_context),
          result |-> handle(try_body(o))]

----------------------------------------------------------------------------
(* generate_response                                                       *)

RateLimitSeconds == 2
ContextTurns == 6
RateLimitMsg == "Please wait 2 seconds between messages."

\* seq[-n:]
last_n(seq, n) ==
    IF Len(seq) <= n THEN seq ELSE SubSeq(seq, Len(seq) - n + 1, Len(seq))

\* [(msg['role'], msg['content']) for msg in st.session_state.messages[-6:]]
conversation_context_of(msgs) ==
    [k \in DOMAIN last_n(msgs, ContextTurns) |->
        <<last_n(msgs, ContextTurns)[k].role, last_n(msgs, ContextTurns)[k].content>>]

\* `time.time() - last_request_time < 2`
rate_limited(t, last) == t - last < RateLimitSeconds

\* the branch taken once the request has passed the rate limit
respond(q, o, msgs, key) ==
    LET i == detect_intent(q)
        quick_resp == get_quick_response(i, q)
        g == get_groq_response(q, i, conversation_context_of(msgs), o, key)
    IN  IF key THEN
            IF truthy(quick_resp)
            THEN [kind |-> "quick", intent |-> i, text |-> quick_resp,
                  sent |-> << >>, raised |-> "none"]
            ELSE [kind |-> "delegated", intent |-> i, text |-> g.result.value,
                  sent |-> g.sent, raised |-> g.result.raised]
        ELSE [kind |-> "kb", intent |-> i, text |-> kb_fallback(i),
              sent |-> << >>, raised |-> "none"]

\* generate_response with the timestamp also written on a blocked request
generate_response_stamps_blocked(q, o, msgs, key, last, t1, t2) ==
    IF rate_limited(t1, last)
    THEN [kind |-> "limited", intent |-> "", text |-> RateLimitMsg,
          sent |-> << >>, raised |-> "none", last |-> t1]
    ELSE [last |-> t2] @@ respond(q, o, msgs, key)

\* generate_response with the timestamp written only after the service answered
generate_response_stamps_on_success(q, o, msgs, key, last, t1, t2) ==
    IF rate_limited(t1, last)
    THEN [kind |-> "limited", intent |-> "", text |-> RateLimitMsg,
          sent |-> << >>, raised |-> "none", last |-> last]
    ELSE [last |-> IF respond(q, o, msgs, key).kind = "delegated"
                      /\ respond(q, o, msgs, key).text # ServiceText
                   THEN last ELSE t2]
         @@ respond(q, o, msgs, key)

\* q: the query; o: what the service does if it is called; msgs: the stored
\* history at the call; t1, t2: the two readings of time.time()
generate_response(q, o, msgs, key, last, t1, t2) ==
    IF rate_limited(t1, last)
    THEN [kind |-> "limited", intent |-> "", text |-> RateLimitMsg,
          sent |-> << >>, raised |-> "none", last |-> last]
    ELSE [last |-> t2] @@ respond(q, o, msgs, key)

----------------------------------------------------------------------------
(* assess_risk                                                             *)

Questions == 1..5

RECURSIVE sum_values(_, _)
sum_values(a, n) == IF n = 0 THEN 0 ELSE a[n] + sum_values(a, n - 1)

ConservativeMax == 10
ModerateMax == 20

\* assess_risk with strict comparisons
assess_risk_strict(a) ==
    LET score == sum_values(a, Len(a))
    IN  IF score < ConservativeMax
        THEN [profile |-> "Conservative",
              alloc |-> [Debt |-> 70, Equity |-> 20, Gold |-> 10]]
        ELSE IF score < ModerateMax
        THEN [profile |-> "Moderate",
              alloc |-> [Debt |-> 40, Equity |-> 45, Gold |-> 15]]
        ELSE [profile |-> "Aggressive",
              alloc |-> [Debt |-> 20, Equity |-> 70, Other |-> 10]]

assess_risk(a) ==
    LET score == sum_values(a, Len(a))
    IN  IF score <= ConservativeMax
        THEN [profile |-> "Conservative",
              alloc |-> [Debt |-> 70, Equity |-> 20, Gold |-> 10]]
        ELSE IF score <= ModerateMax
        THEN [profile |-> "Moderate",
              alloc |-> [Debt |-> 40, Equity |-> 45, Gold |-> 15]]
        ELSE [profile |-> "Aggressive",
              alloc |-> [Debt |-> 20, Equity |-> 70, Other |-> 10]]

----------------------------------------------------------------------------
(* calc_sip                                                                *)

\* Exact fractions <<n, d>> in lowest terms, d > 0.  Python computes on
\* binary floats; the model computes the same expressions exactly and rounds
\* ties to even, as round() does.
Abs(x) == IF x < 0 THEN -x ELSE x

RECURSIVE gcd(_, _)
gcd(a, b) == IF b = 0 THEN a ELSE gcd(b, a % b)

Norm(n, d) ==
    LET sn == IF d < 0 THEN -n ELSE n
        sd == Abs(d)
        g == gcd(Abs(sn), sd)
    IN  <<sn \div g, sd \div g>>

Q(i) == <<i, 1>>
QAdd(a, b) == Norm(a[1] * b[2] + b[1] * a[2], a[2] * b[2])
QSub(a, b) == Norm(a[1] * b[2] - b[1] * a[2], a[2] * b[2])
QMul(a, b) == Norm(a[1] * b[1], a[2] * b[2])
\* a / b for b # 0
QDiv(a, b) == Norm(a[1] * b[2], a[2] * b[1])
QPos(a) == a[1] > 0

\* a ** k
RECURSIVE QPow(_, _)
QPow(a, k) ==
    IF k = 0 THEN Q(1)
    ELSE IF k < 0 THEN QDiv(Q(1), QPow(a, -k))
    ELSE QMul(a, QPow(a, k - 1))

\* round(a, 2)
round2(a) ==
    LET n == a[1] * 100
        f == n \div a[2]
        rem == n % a[2]
        k == IF 2 * rem < a[2] THEN f
             ELSE IF 2 * rem > a[2] THEN f + 1
             ELSE IF f % 2 = 0 THEN f ELSE f + 1
    IN  Norm(k, 100)

MonthsPerYear == 12
RateDivisor == 1200

\* the future value, line 283
future_value(monthly, rate, years) ==
    LET months == years * MonthsPerYear
        r == QDiv(Q(rate), Q(RateDivisor))
        growth == QPow(QAdd(Q(1), r), months)
    IN  IF QPos(r)
        THEN QMul(QMul(Q(monthly), QDiv(QSub(growth, Q(1)), r)), QAdd(Q(1), r))
        ELSE Q(monthly * months)

\* calc_sip without the test of `invested` before the division
calc_sip_unguarded(monthly, rate, years) ==
    LET months == years * MonthsPerYear
        fv == future_value(monthly, rate, years)
        invested == monthly * months
        returns == QSub(fv, Q(invested))
    IN  IF invested = 0 THEN Raise("ZeroDivisionError")
        ELSE Return([fv |-> round2(fv), invested |-> round2(Q(invested)),
                     returns |-> round2(returns),
                     pct |-> round2(QMul(QDiv(returns, Q(invested)), Q(100)))])

calc_sip(monthly, rate, years) ==
    LET months == years * MonthsPerYear
        fv == future_value(monthly, rate, years)
        invested == monthly * months
        returns == QSub(fv, Q(invested))
    IN  Return([fv |-> round2(fv), invested |-> round2(Q(invested)),
                returns |-> round2(returns),
                pct |-> IF invested # 0
                        THEN round2(QMul(QDiv(returns, Q(invested)), Q(100)))
                        ELSE Q(0)])

----------------------------------------------------------------------------
(* Bounds and inputs                                                       *)

StartTime == 10        \* time.time() when the session starts
MaxTime == 14          \* the clock stops here
MaxDrift == 1          \* clock advance between the two time.time() readings
MaxMessages == 9       \* no prompt is submitted once the history is this long
MaxWords == 3          \* phrases per classified query
AnswerMax == 5         \* largest answer handed to assess_risk

MaxMonthly == 12       \* largest monthly investment handed to calc_sip
MaxYears == 3          \* largest number of years handed to calc_sip

FormAnswerMax == 4     \* largest answer the risk form offers
MinPromptLen == 3

\* annual rates handed to calc_sip: negative, zero, and 1200, for which the
\* monthly rate is 1
SipRates == {-RateDivisor, 0, RateDivisor}

\* the arguments of calc_sip; with a positive rate the years stop at one, so
\* that the exact growth factor stays within the integers of the checker
SipInputs ==
    {a \in (0..MaxMonthly) \X SipRates \X (0..MaxYears) :
        a[2] > 0 => a[3] * MonthsPerYear <= MonthsPerYear}

\* phrases the classified queries are built from
Vocabulary == {"Hi ", "hello", "this", "thanks", "who are you",
               "i want to discuss my", "sip", "tax", "stocks", "retire",
               "risk", "loan", "budget", "insurance", "fund", "emergency"}

RECURSIVE join(_)
join(ws) ==
    IF Len(ws) = 0 THEN ""
    ELSE IF Len(ws) = 1 THEN ws[1]
    ELSE ws[1] \o " " \o join(Tail(ws))

Queries == {join(ws) : ws \in UNION {[1..n -> Vocabulary] : n \in 0..MaxWords}}

\* prompts typed in the chat session
ChatPrompts == {"hi", "hello", "tax"}

\* one prompt for each intent, and a too short one
TopicPrompts == {"hi", "hello there", "thanks", "who are you", "start a sip",
                 "tax", "stocks", "retire early", "risk", "loan", "budget",
                 "insurance", "mutual fund", "emergency", "money"}

SessionOutcomes ==
    {o \in Outcomes :
        /\ o.json_error = "RequestException"
        /\ \/ o.exc = "Timeout"
           \/ o.exc = "none" /\ o.status = HTTP_OK /\ o.choices = "ok"
           \/ o.exc = "none" /\ o.status = 500 /\ o.error = "dict"}

Tools == {"Chat", "Risk Assessment"}

NoCall == [kind |-> "none", prompt |-> "", intent |-> "", text |-> "",
           sent |-> << >>, raised |-> "none", at |-> 0, stamp |-> 0,
           prev_last |-> 0, outcome |-> "none"]

NoRisk == [profile |-> "", alloc |-> << >>]

NoSip == [raised |-> "not called", value |-> "none"]

----------------------------------------------------------------------------
(* The script: one action per widget event, each a whole rerun             *)

\* render_chat that leaves an empty history empty
render_chat_no_greeting(msgs) == msgs

\* the top of the chat tool: an empty history gets the greeting
render_chat(msgs) ==
    IF msgs = << >>
    THEN <<[role |-> "assistant", content |-> get_quick_response("greeting", "hi")]>>
    ELSE msgs

\* the rerun after a widget event, for the selected tool
rerun(t, msgs) == IF t = "Chat" THEN render_chat(msgs) ELSE msgs

\* after_prompt that keeps only the context window in the stored history
after_prompt_window(msgs, prompt, r) ==
    last_n(Append(Append(msgs, [role |-> "user", content |-> prompt]),
                  [role |-> "assistant", content |-> r.text]), ContextTurns)

\* the history after the prompt, given the result r of generate_response;
\* an exception leaving generate_response ends the run before line 396
after_prompt(msgs, prompt, r) ==
    IF r.raised # "none" THEN Append(msgs, [role |-> "user", content |-> prompt])
    ELSE Append(Append(msgs, [role |-> "user", content |-> prompt]),
                [role |-> "assistant", content |-> r.text])

TypeInit ==
    /\ query = ""
    /\ intent = ""
    /\ API_KEY \in BOOLEAN
    /\ tool = "Chat"
    /\ messages = rerun("Chat", << >>)
    /\ last_request_time = 0
    /\ now = StartTime
    /\ call = NoCall
    /\ answers = [q \in Questions |-> 1]
    /\ risk = NoRisk
    /\ sip_in = <<0, 0, 0>>
    /\ sip = NoSip

\* st.chat_input delivers `prompt`; o is what the service does if called and
\* d the clock advance between the two readings of time.time()
Submit(prompt, o, d) ==
    /\ tool = "Chat"
    /\ Len(messages) + 2 <= MaxMessages
    /\ now + d <= MaxTime
    /\ LET shown == render_chat(messages)
           asked == Append(shown, [role |-> "user", content |-> prompt])
           r == generate_response(prompt, o, asked, API_KEY,
                                  last_request_time, now, now + d)
       IN  IF Len(strip(prompt)) < MinPromptLen
           THEN /\ messages' = shown
                /\ call' = [NoCall EXCEPT !.kind = "rejected", !.prompt = prompt,
                                          !.at = now, !.stamp = now,
                                          !.prev_last = last_request_time]
                /\ UNCHANGED <<last_request_time, now>>
           ELSE /\ messages' = after_prompt(shown, prompt, r)
                /\ last_request_time' = r.last
                /\ now' = IF r.kind = "limited" THEN now ELSE now + d
                /\ call' = [kind |-> r.kind, prompt |-> prompt,
                            intent |-> r.intent, text |-> r.text,
                            sent |-> r.sent, raised |-> r.raised, at |-> now,
                            stamp |-> IF r.kind = "limited" THEN now ELSE now + d,
                            prev_last |-> last_request_time,
                            outcome |-> IF r.kind = "delegated" THEN o ELSE "none"]
    /\ UNCHANGED <<query, intent, API_KEY, tool, answers, risk, sip_in, sip>>

ChatSubmit ==
    \E p \in ChatPrompts, o \in SessionOutcomes, d \in 0..MaxDrift : Submit(p, o, d)

\* the Clear button: empty the history, then st.rerun()
Clear ==
    /\ messages' = rerun(tool, << >>)
    /\ UNCHANGED <<query, intent, API_KEY, tool, last_request_time, now, call,
                   answers, risk, sip_in, sip>>

SelectTool ==
    \E t \in Tools :
        /\ t # tool
        /\ tool' = t
        /\ messages' = rerun(t, messages)
        /\ UNCHANGED <<query, intent, API_KEY, last_request_time, now, call,
                       answers, risk, sip_in, sip>>

Tick ==
    /\ now < MaxTime
    /\ now' = now + 1
    /\ UNCHANGED <<query, intent, API_KEY, messages, tool, last_request_time,
                   call, answers, risk, sip_in, sip>>

Init == TypeInit
Next == ChatSubmit \/ Clear \/ SelectTool \/ Tick
Spec == Init /\ [][Next]_vars

\* one request of a fresh session, over every intent and every service outcome
ComposeOnce ==
    /\ call.kind = "none"
    /\ \E p \in TopicPrompts, o \in Outcomes : Submit(p, o, 0)

SpecCompose == Init /\ [][ComposeOnce]_vars

\* detect_intent on its own
InitIntent ==
    /\ TypeInit
    /\ API_KEY = TRUE

Classify ==
    /\ intent = ""
    /\ \E q \in Queries :
        /\ query' = q
        /\ intent' = detect_intent(q)
    /\ UNCHANGED <<API_KEY, messages, tool, last_request_time, now, call,
                   answers, risk, sip_in, sip>>

SpecIntent == InitIntent /\ [][Classify]_vars

\* assess_risk on its own
Assess ==
    /\ risk = NoRisk
    /\ \E a \in [Questions -> 1..AnswerMax] :
        /\ answers' = a
        /\ risk' = assess_risk(a)
    /\ UNCHANGED <<query, intent, API_KEY, messages, tool, last_request_time,
                   now, call, sip_in, sip>>

SpecRisk == InitIntent /\ [][Assess]_vars

\* calc_sip on its own
CalcSip ==
    /\ sip.raised = "not called"
    /\ \E a \in SipInputs :
        /\ sip_in' = a
        /\ sip' = calc_sip(a[1], a[2], a[3])
    /\ UNCHANGED <<query, intent, API_KEY, messages, tool, last_request_time,
                   now, call, answers, risk>>

SpecSip == InitIntent /\ [][CalcSip]_vars

----------------------------------------------------------------------------
(* Properties                                                              *)

Answered == {"quick", "kb", "delegated"}
CannedTopics == {"greeting", "gratitude", "casual"}
FinanceTopics == <<"sip", "tax", "stocks", "retirement", "risk", "debt",
                   "budget", "insurance", "mutual_fund", "emergency">>
Range(f) == {f[x] : x \in DOMAIN f}

\* C1: every request that passes the rate limit and is classified greeting,
\* gratitude or casual is answered with the canned reply of that topic, with
\* and without an API key.
C1_CannedReplyWhateverTheKey ==
    (call.kind \in Answered /\ call.intent \in CannedTopics)
        => call.text = quick_responses[call.intent]

\* C2: a request made less than 2 seconds after last_request_time gets the
\* warning, leaves last_request_time as it was, classifies nothing and sends
\* nothing; and a request made 2 seconds or more after last_request_time,
\* which blocked attempts never move, is answered.
C2_BlockedRequestKeepsTimestamp ==
    /\ call.kind = "limited" =>
        /\ call.at - call.prev_last < RateLimitSeconds
        /\ call.text = RateLimitMsg
        /\ last_request_time = call.prev_last
        /\ call.intent = ""
        /\ call.sent = << >>
    /\ call.kind \in Answered => call.at - call.prev_last >= RateLimitSeconds
    /\ (call.kind \in Answered \cup {"limited"}
            /\ call.at - call.prev_last >= RateLimitSeconds)
        => call.kind \in Answered

\* an answered request whose predecessor in the history was blocked
C2_Witness ==
    /\ call.kind \in Answered
    /\ call.prev_last > 0
    /\ Len(messages) >= 5
    /\ messages[Len(messages) - 2].content = RateLimitMsg

\* a step that handles a submitted prompt
PromptStep == call' # call \/ Len(messages') = Len(messages) + 2

\* C3: every answered request, whatever branch answers it, leaves
\* last_request_time at the time read when it was accepted, and the next
\* request made less than 2 seconds after that time is blocked.
C3_AnsweredRequestStampsTime ==
    [][PromptStep =>
        /\ call'.kind \in Answered => last_request_time' = call'.stamp
        /\ (call.kind \in Answered
                /\ call'.kind \in Answered \cup {"limited"}
                /\ call'.at - call.stamp < RateLimitSeconds)
            => call'.kind = "limited"]_vars

\* a request blocked right after a delegation that timed out
C3_Witness ==
    /\ call.kind = "limited"
    /\ Len(messages) >= 5
    /\ messages[Len(messages) - 2].content = TimeoutMsg
    /\ last_request_time > 0

\* the knowledge-base fact of a finance topic
FactOf(t) == get_knowledge_base[IF t = "mutual_fund" THEN "mutual fund" ELSE t]

\* C4: without an API key, an answered request of one of the ten finance
\* topics gets the header, the fact of that topic and the suggestion; only
\* the other topics get the generic text.
C4_FallbackCarriesTopicFact ==
    call.kind = "kb" =>
        IF call.intent \in Range(FinanceTopics)
        THEN call.text = FallbackHeader \o FactOf(call.intent) \o FallbackSuggestion
        ELSE call.text = FallbackHeader \o KbDefault \o FallbackSuggestion

\* the keyword set the classifier tests for topic t
KeywordsOf(t) ==
    (CHOOSE r \in Range(topic_rules) : r.topic = t).words

AllTopics == Range(FinanceTopics) \cup CannedTopics \cup {"general"}

Classified == intent # ""

NoCannedRule(ql) ==
    /\ ~(anyIn(greetings, ql) /\ Len(split(ql)) <= GreetingMaxTokens)
    /\ ~anyIn(thanks, ql)
    /\ ~anyIn(casual, ql)

\* C5: the classifier always returns one of the 14 topics; for a query that
\* matches no greeting, gratitude or casual rule the topic is the first of
\* sip, tax, stocks, retirement, risk, debt, budget, insurance, mutual_fund,
\* emergency with a keyword in the normalized query, and general when there
\* is none; the empty string is general.
C5_FirstMatchingTopicWins ==
    Classified =>
        LET ql == strip(lower(query))
            hits == {k \in 1..Len(FinanceTopics) :
                        anyIn(KeywordsOf(FinanceTopics[k]), ql)}
        IN  /\ intent \in AllTopics
            /\ query = "" => intent = "general"
            /\ NoCannedRule(ql) =>
                IF hits = {} THEN intent = "general"
                ELSE intent = FinanceTopics[CHOOSE k \in hits :
                                                \A j \in hits : k <= j]

\* a stocks keyword ahead of a tax keyword in the text, classified tax
C5_Witness ==
    /\ query = "stocks tax"
    /\ intent = "tax"

\* some run of consecutive tokens is one of the greetings
HasGreetingToken(tokens) ==
    \E a \in 1..Len(tokens), b \in 1..Len(tokens) :
        a <= b /\ join(SubSeq(tokens, a, b)) \in Range(greetings)

\* C6: the classifier returns greeting exactly for the queries of at most 3
\* tokens one of whose tokens is a greeting word.
C6_GreetingNeedsGreetingToken ==
    Classified =>
        LET tokens == split(strip(lower(query)))
        IN  intent = "greeting"
                <=> (Len(tokens) <= GreetingMaxTokens /\ HasGreetingToken(tokens))

IsPrefix(p, t) == Len(p) <= Len(t) /\ SubSeq(t, 1, Len(p)) = p

\* the failure class of a service outcome
FailureClass(o) ==
    CASE o.exc = "Timeout" -> "timeout"
      [] o.exc = "ConnectionError" -> "connection"
      [] o.exc = "RuntimeError" -> "other"
      [] o.exc = "none" /\ o.status # HTTP_OK -> "remote"
      [] o.exc = "none" /\ o.status = HTTP_OK
            /\ (o.text # "json" \/ o.choices # "ok") -> "malformed"
      [] OTHER -> "success"

\* the failure class a returned text reports
MessageClass(t) ==
    CASE t = TimeoutMsg -> "timeout"
      [] t = ConnectionMsg -> "connection"
      [] t \in {FormatMsg, TroubleMsg} -> "malformed"
      [] IsPrefix(ApiErrorPrefix, t) -> "remote"
      [] IsPrefix(GenericPrefix, t) -> "other"
      [] OTHER -> "success"

FailureClasses == {"timeout", "connection", "malformed", "remote"}

\* C7: whatever the service does, the delegation returns a text and raises
\* nothing, and a timeout, a connection failure, a malformed response and a
\* remote error are each reported with the message of their own class.
C7_FailureClassesKeepTheirMessage ==
    call.kind = "delegated" =>
        /\ call.raised = "none"
        /\ \A c \in FailureClasses :
            FailureClass(call.outcome) = c <=> MessageClass(call.text) = c

\* the turns of the history as the service receives them
AsTurns(msgs) ==
    [k \in DOMAIN msgs |->
        [role |-> IF msgs[k].role = "user" THEN "user" ELSE "assistant",
         content |-> msgs[k].content]]

\* C8: a delegated request carries the system instruction, then the most
\* recent turns before the query, at most 6 of them and in their order, then
\* the query once as the last user message; the stored history keeps every
\* earlier turn.
C8_ContextPrecedesQueryOnce ==
    (call.kind = "delegated" /\ call.raised = "none") =>
        LET prior == SubSeq(messages, 1, Len(messages) - 2)
        IN  /\ messages[Len(messages) - 1] = [role |-> "user", content |-> call.prompt]
            /\ \E n \in 0..ContextTurns :
                call.sent = <<[role |-> "system",
                               content |-> system_instruction(call.intent)]>>
                            \o AsTurns(last_n(prior, n))
                            \o <<[role |-> "user", content |-> call.prompt]>>

Pair(prompt, text) ==
    <<[role |-> "user", content |-> prompt], [role |-> "assistant", content |-> text]>>

\* C9 as stated: handling a submitted prompt appends the user turn and the
\* assistant turn with the returned text to the history and changes nothing
\* else of it.
C9_PromptAppendsPair ==
    [][PromptStep => messages' = messages \o Pair(call'.prompt, call'.text)]_vars

\* C9 amended: a prompt of at least 3 characters after stripping appends the
\* user turn and the assistant turn with the returned text, in every branch;
\* a shorter prompt leaves the history as it was.
C9_LongEnoughPromptAppendsPair ==
    [][PromptStep =>
        IF Len(strip(call'.prompt)) < MinPromptLen
        THEN messages' = messages
        ELSE messages' = messages \o Pair(call'.prompt, call'.text)]_vars

\* a timed-out delegation whose pair ends a history of more than 6 turns
C9_Witness ==
    /\ call.kind = "delegated"
    /\ call.text = TimeoutMsg
    /\ Len(messages) > ContextTurns
    /\ SubSeq(messages, Len(messages) - 1, Len(messages)) = Pair(call.prompt, TimeoutMsg)

Score == answers[1] + answers[2] + answers[3] + answers[4] + answers[5]

AllocTotal(alloc) ==
    LET RECURSIVE total(_)
        total(ks) == IF ks = {} THEN 0
                     ELSE LET k == CHOOSE x \in ks : TRUE
                          IN  alloc[k] + total(ks \ {k})
    IN  total(DOMAIN alloc)

\* C10: answers in 1..4 give Conservative 70/20/10 up to a sum of 10 and
\* Moderate 40/45/15 from 11 to 20, never Aggressive; a sum above 20 gives
\* Aggressive 20/70/10; every allocation adds up to 100.
C10_RiskBuckets ==
    risk # NoRisk =>
        /\ AllocTotal(risk.alloc) = 100
        /\ Score > ModerateMax =>
            /\ risk.profile = "Aggressive"
            /\ risk.alloc = [Debt |-> 20, Equity |-> 70, Other |-> 10]
        /\ answers \in [Questions -> 1..FormAnswerMax] =>
            /\ Score <= 10 =>
                /\ risk.profile = "Conservative"
                /\ risk.alloc = [Debt |-> 70, Equity |-> 20, Gold |-> 10]
            /\ (11 <= Score /\ Score <= 20) =>
                /\ risk.profile = "Moderate"
                /\ risk.alloc = [Debt |-> 40, Equity |-> 45, Gold |-> 15]
            /\ risk.profile # "Aggressive"

\* the highest score of the form, 20, is Moderate
C10_Witness ==
    /\ answers = [q \in Questions |-> FormAnswerMax]
    /\ risk.profile = "Moderate"

\* C11: calc_sip raises nothing; the invested amount is monthly x 12 x years;
\* the return percentage is 0 when the invested amount is 0; and at rate 0
\* with a positive monthly amount and positive years the future value is the
\* invested amount, the returns are 0 and the percentage is 0.
C11_SipZeroRateAndZeroInvested ==
    sip.raised # "not called" =>
        LET m == sip_in[1]
            rate == sip_in[2]
            y == sip_in[3]
        IN  /\ sip.raised = "none"
            /\ sip.value.invested = <<m * 12 * y, 1>>
            /\ m * 12 * y = 0 => sip.value.pct = <<0, 1>>
            /\ (m > 0 /\ y > 0 /\ rate = 0) =>
                /\ sip.value.fv = <<m * 12 * y, 1>>
                /\ sip.value.returns = <<0, 1>>
                /\ sip.value.pct = <<0, 1>>

\* rate 0 with a positive amount over more than one year
C11_Witness ==
    /\ sip.raised = "none"
    /\ sip_in[2] = 0 /\ sip_in[1] > 0 /\ sip_in[3] > 1
    /\ sip.value.fv = sip.value.invested

\* the greeting, then user and assistant turns in alternation
GreetingThenPairs(msgs) ==
    /\ Len(msgs) % 2 = 1
    /\ msgs[1] = [role |-> "assistant", content |-> GreetingReply]
    /\ \A k \in 2..Len(msgs) :
        msgs[k].role = IF k % 2 = 0 THEN "user" ELSE "assistant"

\* C12: over tool switches, prompts and Clear presses the history is empty
\* or is the greeting followed by (user, assistant) pairs, and a blocked
\* prompt adds the pair of the prompt and the rate-limit warning.
C12_HistoryAlternates ==
    /\ [](messages = << >> \/ GreetingThenPairs(messages))
    /\ [][(PromptStep /\ call'.kind = "limited")
            => messages' = messages \o Pair(call'.prompt, RateLimitMsg)]_vars

\* a history holding a blocked prompt and a failed delegation, seen from
\* another tool
C12_Witness ==
    /\ tool # "Chat"
    /\ GreetingThenPairs(messages)
    /\ \E k \in DOMAIN messages : messages[k].content = RateLimitMsg
    /\ \E k \in DOMAIN messages : messages[k].content = TimeoutMsg

====
